---- MODULE Spec2Model ----
(***************************************************************************)
(* Model of the reverse-ssh tool: the JSON tunnel registry                  *)
(* (ssh_util/reverse_ssh_registry.py), the tunnel set-up client             *)
(* (ssh_util/reverse_ssh.py) and the command line driver (main.py).         *)
(*                                                                          *)
(* One invocation of the tool is a sequence of steps; a step is one access  *)
(* to something shared between invocations (the registry file, the process  *)
(* table, the remote host) together with the local computation up to the    *)
(* next such access.  Spec runs one invocation at a time; SpecConc runs two *)
(* invocations side by side.                                                *)
(*                                                                          *)
(* main.py uses ReverseSSHLinux / ReverseSSHRegistryLinux; they are taken   *)
(* to forward to the methods of ReverseSSH / ReverseSSHRegistry.            *)
(***************************************************************************)
EXTENDS Integers, Sequences, FiniteSets, TLC

\* ------------------------------------------------------------------ bounds

\* Tunnel processes ever started in one behaviour (pids 1..MaxPid).
MaxPid == 2

\* Bind ports given to one --kill-tunnel invocation (nargs='+').
MaxKillArgs == 2

\* Lines of authorized_keys the model lets the public key reach.
MaxAuthorized == 2

\* ------------------------------------------------------------------ inputs

\* Bind ports of the model; the decimal form of 8080 ends with that of 80.
BindPorts == {80, 8080}

\* --host values; "" stands for an option that was not given.
Hosts == {"a.io", "bb.io"}

\* --user value.
Users == {"u"}

\* --local-port default of main.py.
LocalPort == 1632

\* ------------------------------------------------------- decimal strings

DigitChars == <<"0", "1", "2", "3", "4", "5", "6", "7", "8", "9">>

\* str(n) of a non-negative integer: its decimal digits, one character each.
RECURSIVE Str(_)
Str(n) ==
  IF n < 10 THEN <<DigitChars[n + 1]>>
  ELSE Str(n \div 10) \o <<DigitChars[(n % 10) + 1]>>

DigitVal(c) == CHOOSE d \in 0..9 : DigitChars[d + 1] = c

\* int(s) of a string of decimal digits.
RECURSIVE ParseInt(_)
ParseInt(s) ==
  IF Len(s) = 0 THEN 0
  ELSE 10 * ParseInt(SubSeq(s, 1, Len(s) - 1)) + DigitVal(s[Len(s)])

\* ------------------------------------------------------------- registry

EmptyMap == [k \in {} |-> 0]

Metadata(remote_host, remote_user) ==
  [remote_host |-> remote_host, remote_user |-> remote_user]

\* data_dict[key] = value
Put(m, key, value) ==
  [k \in DOMAIN m \cup {key} |-> IF k = key THEN value ELSE m[k]]

\* del data_dict[key]
Del(m, key) == [k \in DOMAIN m \ {key} |-> m[k]]

Restrict(m, S) == [k \in S |-> m[k]]

\* Every registry content over the model's bind ports and hosts.
Mappings ==
  UNION {[{Str(p) : p \in S} -> {Metadata(h, u) : h \in Hosts, u \in Users}] :
           S \in SUBSET BindPorts}

\* Number of characters json.dump(m, indent=4) writes: "{}" for the empty
\* mapping, otherwise one indented block per entry.
RECURSIVE EntriesLen(_, _)
EntriesLen(m, S) ==
  IF S = {} THEN 0
  ELSE LET k == CHOOSE x \in S : TRUE
       IN  70 + Len(k) + Len(m[k].remote_host) + Len(m[k].remote_user)
             + EntriesLen(m, S \ {k})

JsonLen(m) == 2 + EntriesLen(m, DOMAIN m)

\* The registry file: absent, a complete JSON document ("json", data), or
\* content json.load rejects ("bad", of len characters; len 0 is the file
\* just truncated by open(path, "w")).
AbsentFile == [kind |-> "absent", data |-> EmptyMap, len |-> 0]
JsonFile(m) == [kind |-> "json", data |-> m, len |-> JsonLen(m)]
BadFile(n) == [kind |-> "bad", data |-> EmptyMap, len |-> n]

\* Lengths of the unparsable files a behaviour may start from.
InitBadLens == {7}

\* _read_registry: the parsed file, {} when it is missing or unparsable.
ReadRegistry(f) == IF f.kind = "json" THEN f.data ELSE EmptyMap

\* open(path, "w"): creates or truncates the file.
OpenTruncate(f) == BadFile(0)

\* The buffered text of json.dump reaches the file when it is closed, written
\* at offset 0 of whatever the file holds by then; a longer content left by
\* another writer keeps its tail, which json.load rejects as extra data.
FlushWrite(f, m) ==
  IF f.len <= JsonLen(m) THEN JsonFile(m) ELSE BadFile(f.len)

\* ------------------------------------------------------------ processes

\* Command line of the tunnel started by start_reverse_tunnel for a bind port.
CmdLine(bind_port) ==
  <<"ssh", " ", "-fNR", " ">> \o Str(bind_port) \o <<":", "localhost", ":">>
    \o Str(LocalPort) \o <<" ", "user@host", " ", "-p", " ", "...">>

\* The pattern f"{bind_port}:localhost" given to pgrep -f.
Pattern(key) == key \o <<":", "localhost">>

Contains(line, pat) ==
  \E i \in 1..(Len(line) - Len(pat) + 1) :
     SubSeq(line, i, i + Len(pat) - 1) = pat

\* pids pgrep -f prints for the pattern, as a set.
PgrepSet(ps, key) ==
  {p.pid : p \in {q \in ps : Contains(CmdLine(q.bind), Pattern(key))}}

\* The pids in ascending order, as pgrep prints them.
RECURSIVE SortedSeq(_)
SortedSeq(S) ==
  IF S = {} THEN <<>>
  ELSE LET x == CHOOSE y \in S : \A z \in S : y <= z
       IN  <<x>> \o SortedSeq(S \ {x})

Pgrep(ps, key) == SortedSeq(PgrepSet(ps, key))

\* ---------------------------------------------------------------- state

VARIABLES
  file,        \* the registry file /tmp/.reverse-ssh/reverse_ssh.json
  procs,       \* running tunnel processes: records [pid, bind]
  nextPid,     \* pid of the next tunnel process
  authorized,  \* lines of the remote authorized_keys equal to id_rsa.pub
  inv          \* the invocations of the tool, one record per slot

vars == <<file, procs, nextPid, authorized, inv>>

Slots == {1, 2}

NoPrev == [op |-> "none", tunnel_dict |-> EmptyMap, nwrites |-> 0]

\* An invocation slot with no invocation running.
IdleInv ==
  [pc |-> "idle", op |-> "none", bind |-> 0, host |-> "", user |-> "",
   kports |-> <<>>, data |-> EmptyMap, active |-> EmptyMap, todo |-> {},
   the_pid |-> <<>>, wbuf |-> EmptyMap, wret |-> "idle",
   tunnel_dict |-> EmptyMap, status |-> 0, uncaught |-> FALSE,
   caught |-> FALSE,
   trace |-> <<>>, nwrites |-> 0, signalled |-> {}, errors |-> 0,
   before |-> AbsentFile, procs0 |-> {}, atLaunch |-> AbsentFile,
   atCall |-> {}, killed |-> {}, prev |-> NoPrev]

Init ==
  /\ file \in {AbsentFile} \cup {BadFile(n) : n \in InitBadLens}
                \cup {JsonFile(m) : m \in Mappings}
  /\ procs = {}
  /\ nextPid = 1
  /\ authorized = 0
  /\ inv = [i \in Slots |-> IdleInv]

\* Faulty variant of Exit: the status given to sys.exit is lost.
ExitAlwaysZero(s, code) == [s EXCEPT !.pc = "done", !.status = 0]

\* sys.exit(code), or the end of main (code 0).
Exit(s, code) == [s EXCEPT !.pc = "done", !.status = code]

\* An exception no handler catches: the interpreter prints the traceback
\* and exits with status 1.
Traceback(s) == [s EXCEPT !.pc = "done", !.status = 1, !.uncaught = TRUE]

\* One set-up step and its outcome, in the order the steps ran.
Log(s, step, ok) ==
  [s EXCEPT !.trace = Append(@, [step |-> step, ok |-> ok])]

\* An exception raised inside the try block of main: the handler prints it
\* and main ends, exit status 0.
Caught(s, step) == [Exit(Log(s, step, FALSE), 0) EXCEPT !.caught = TRUE]

\* _write_registry(data_dict) called; ret is where the caller continues.
CallWrite(s, data_dict, ret) ==
  [s EXCEPT !.pc = "w_open", !.wbuf = data_dict, !.wret = ret]

\* ------------------------------------------------- command line (main.py)

KillArgs ==
  UNION {[1..n -> BindPorts] : n \in 1..MaxKillArgs}

\* main: parse_args and the branch on --list-tunnel / --kill-tunnel; each
\* branch constructs the registry first.
Start(i) ==
  /\ inv[i].pc = "idle"
  /\ \/ inv' = [inv EXCEPT ![i] =
                  [IdleInv EXCEPT !.pc = "ctor", !.op = "list",
                                  !.before = file, !.procs0 = procs,
                                  !.prev = inv[i].prev]]
     \/ \E ports \in KillArgs :
          inv' = [inv EXCEPT ![i] =
                    [IdleInv EXCEPT !.pc = "ctor", !.op = "kill",
                                    !.kports = ports, !.before = file,
                                    !.procs0 = procs]]
     \/ \E bp \in BindPorts, h \in Hosts \cup {""}, u \in Users :
          inv' = [inv EXCEPT ![i] =
                    [IdleInv EXCEPT !.pc = "ctor", !.op = "setup",
                                    !.bind = bp, !.host = h, !.user = u,
                                    !.before = file, !.procs0 = procs]]
  /\ UNCHANGED <<file, procs, nextPid, authorized>>

\* main: --host and --user are required for a set-up (parser.error exits 2).
RequireHostUser(s) ==
  IF s.host = "" \/ s.user = "" THEN Exit(s, 2)
  ELSE [s EXCEPT !.pc = "s_net"]

\* Faulty variant of InUse: the str key is compared with the int option
\* without conversion, which is never equal.
InUseNoConversion(tunnel_dict, bind) ==
  \E bind_port \in DOMAIN tunnel_dict : FALSE

\* main: a set-up compares int(bind_port) of every listed record with
\* int(args.bind_port) and exits 1 on a match.
InUse(tunnel_dict, bind) ==
  \E bind_port \in DOMAIN tunnel_dict : ParseInt(bind_port) = bind

PortFree(s) ==
  IF InUse(s.tunnel_dict, s.bind) THEN Exit(Log(s, "PortFree", FALSE), 1)
  ELSE RequireHostUser(Log(s, "PortFree", TRUE))

\* main after list_ssh_tunnel returned: --list-tunnel prints the mapping and
\* exits 0, a set-up goes through the bind port check.
ListReturned(s) ==
  IF s.op = "list" THEN Exit(s, 0) ELSE PortFree(s)

\* main: the loop "for bind_port in args.kill_tunnel", then sys.exit(0).
KillNext(s) ==
  IF s.kports = <<>> THEN Exit(s, 0) ELSE [s EXCEPT !.pc = "k_read"]

\* main: the tunnel is registered; the success line is printed and main ends.
SetupEnd(s) == Exit(Log(s, "RegisterRecord", TRUE), 0)

\* The caller of a registry method continues at ret.
Return(s, ret) ==
  CASE ret = "l_ret" -> ListReturned(s)
    [] ret = "k_next" -> KillNext(s)
    [] ret = "s_end" -> SetupEnd(s)
    [] OTHER -> [s EXCEPT !.pc = ret]

\* ------------------------------------------------ ReverseSSHRegistry

\* Where the caller of the constructor continues.
AfterCtor(s) ==
  IF s.pc = "r_ctor" THEN "r_read"
  ELSE IF s.op = "kill" THEN "k_read" ELSE "l_read"

\* Faulty variant of Ctor: a missing registry file is not created.
CtorNeverCreates(i) ==
  LET s == inv[i] IN
  /\ s.pc \in {"ctor", "r_ctor"}
  /\ inv' = [inv EXCEPT ![i] = [s EXCEPT !.pc = AfterCtor(s)]]
  /\ UNCHANGED <<file, procs, nextPid, authorized>>

\* __init__: the registry file is created with {} when it does not exist.
Ctor(i) ==
  LET s == inv[i] IN
  /\ s.pc \in {"ctor", "r_ctor"}
  /\ inv' = [inv EXCEPT ![i] =
               IF file.kind = "absent"
               THEN CallWrite(s, EmptyMap, AfterCtor(s))
               ELSE [s EXCEPT !.pc = AfterCtor(s)]]
  /\ UNCHANGED <<file, procs, nextPid, authorized>>

\* _write_registry, first half: open(self.registry_path, "w").
WriteOpen(i) ==
  /\ inv[i].pc = "w_open"
  /\ file' = OpenTruncate(file)
  /\ inv' = [inv EXCEPT ![i].pc = "w_flush"]
  /\ UNCHANGED <<procs, nextPid, authorized>>

\* _write_registry, second half: json.dump and the close of the file; the
\* method returns to its caller.
WriteFlush(i) ==
  LET s == inv[i] IN
  /\ s.pc = "w_flush"
  /\ file' = FlushWrite(file, s.wbuf)
  /\ inv' = [inv EXCEPT ![i] =
               Return([s EXCEPT !.nwrites = s.nwrites + 1], s.wret)]
  /\ UNCHANGED <<procs, nextPid, authorized>>

\* Faulty variant of ListCompare: the registry is rewritten on every listing.
ListCompareAlwaysWrites(s) ==
  CallWrite([s EXCEPT !.tunnel_dict = s.active], s.active, "l_ret")

\* list_tunnel after the loop: the registry is rewritten when a record was
\* dropped, and left alone otherwise.
ListCompare(s) ==
  IF s.active # s.data
  THEN CallWrite([s EXCEPT !.tunnel_dict = s.active], s.active, "l_ret")
  ELSE Return([s EXCEPT !.tunnel_dict = s.data], "l_ret")

\* list_tunnel between two turns of the loop over data_dict.items().
ListLoop(s) ==
  IF s.todo = {} THEN ListCompare(s) ELSE [s EXCEPT !.pc = "l_probe"]

\* Faulty variant of ListRead (not what the code does): the registry is read
\* under a lock that a set-up holds from its listing to its registration.
ListReadUnderLock(i) ==
  LET s == inv[i]
      data_dict == ReadRegistry(file)
  IN
  /\ s.pc = "l_read"
  /\ \A j \in Slots \ {i} :
        inv[j].op = "setup" => inv[j].pc \in {"idle", "ctor", "l_read", "done"}
  /\ inv' = [inv EXCEPT ![i] =
               ListLoop([s EXCEPT !.data = data_dict, !.active = EmptyMap,
                                  !.todo = DOMAIN data_dict])]
  /\ UNCHANGED <<file, procs, nextPid, authorized>>

\* list_tunnel: data_dict = self._read_registry().
ListRead(i) ==
  LET s == inv[i]
      data_dict == ReadRegistry(file)
  IN
  /\ s.pc = "l_read"
  /\ inv' = [inv EXCEPT ![i] =
               ListLoop([s EXCEPT !.data = data_dict, !.active = EmptyMap,
                                  !.todo = DOMAIN data_dict])]
  /\ UNCHANGED <<file, procs, nextPid, authorized>>

\* Faulty variant of IsActive: the test of the pgrep output is inverted.
IsActiveInverted(ps, key) == PgrepSet(ps, key) = {}

\* The probe of list_tunnel: a record is active when pgrep prints a pid.
IsActive(ps, key) == PgrepSet(ps, key) # {}

\* list_tunnel: one turn of the loop, the pgrep for one record.
ListProbe(i) ==
  LET s == inv[i] IN
  /\ s.pc = "l_probe"
  /\ \E bind_port \in s.todo :
       inv' = [inv EXCEPT ![i] =
                 ListLoop([s EXCEPT
                             !.todo = s.todo \ {bind_port},
                             !.active =
                                IF IsActive(procs, bind_port)
                                THEN Put(s.active, bind_port,
                                         s.data[bind_port])
                                ELSE s.active])]
  /\ UNCHANGED <<file, procs, nextPid, authorized>>

\* kill_tunnel: data_dict = self._read_registry(), for the next bind port of
\* the loop of main.  signalled, errors and atCall are kept per call; killed
\* is the set of bind ports kill_tunnel was called for.
KillRead(i) ==
  LET s == inv[i] IN
  /\ s.pc = "k_read"
  /\ inv' = [inv EXCEPT ![i] =
               [s EXCEPT !.pc = "k_pgrep", !.data = ReadRegistry(file),
                         !.bind = Head(s.kports), !.kports = Tail(s.kports),
                         !.signalled = {}, !.errors = 0, !.atCall = procs,
                         !.killed = s.killed \cup {Head(s.kports)}]]
  /\ UNCHANGED <<file, procs, nextPid, authorized>>

\* Faulty variant of KillRemove: a fresh mapping is written in place of the
\* one that was read.
KillRemoveWritesFresh(s) == CallWrite(s, EmptyMap, "k_next")

\* Faulty variant of KillRemove: the entry is removed only when a process
\* was signalled.
KillRemoveOnlyWhenKilled(s) ==
  CallWrite(s, IF s.signalled # {} /\ Str(s.bind) \in DOMAIN s.data
               THEN Del(s.data, Str(s.bind)) ELSE s.data,
            "k_next")

\* kill_tunnel, "in all cases, remove the entry from the registry".
KillRemove(s) ==
  CallWrite(s, IF Str(s.bind) \in DOMAIN s.data
               THEN Del(s.data, Str(s.bind)) ELSE s.data,
            "k_next")

\* Faulty variant of KillPgrep: the CalledProcessError of a pgrep without a
\* match is not handled.
KillPgrepUnhandled(i) ==
  LET s == inv[i]
      the_pid == Pgrep(procs, Str(s.bind))
  IN
  /\ s.pc = "k_pgrep"
  /\ inv' = [inv EXCEPT ![i] =
               IF the_pid = <<>> THEN Traceback(s)
               ELSE [s EXCEPT !.pc = "k_signal", !.the_pid = the_pid]]
  /\ UNCHANGED <<file, procs, nextPid, authorized>>

\* kill_tunnel: pgrep -f with check=True; with no match pgrep exits 1 and the
\* CalledProcessError handler leads to the removal.
KillPgrep(i) ==
  LET s == inv[i]
      the_pid == Pgrep(procs, Str(s.bind))
  IN
  /\ s.pc = "k_pgrep"
  /\ inv' = [inv EXCEPT ![i] =
               IF the_pid = <<>> THEN KillRemove(s)
               ELSE [s EXCEPT !.pc = "k_signal", !.the_pid = the_pid]]
  /\ UNCHANGED <<file, procs, nextPid, authorized>>

\* Where kill_tunnel continues after one turn of the loop over the_pid.
KillLoop(s) ==
  IF Len(s.the_pid) = 1 THEN KillRemove([s EXCEPT !.the_pid = <<>>])
  ELSE [s EXCEPT !.the_pid = Tail(s.the_pid)]

\* kill_tunnel: os.kill(int(found_pid), signal.SIGTERM).  A process that is
\* gone raises ProcessLookupError, which is handled; a process of another
\* user raises PermissionError, which nothing handles.
KillSignal(i) ==
  LET s == inv[i]
      found_pid == Head(s.the_pid)
      target == {p \in procs : p.pid = found_pid}
  IN
  /\ s.pc = "k_signal"
  /\ \/ /\ target = {}
        /\ inv' = [inv EXCEPT ![i] = KillLoop([s EXCEPT !.errors = @ + 1])]
        /\ procs' = procs
     \/ /\ target # {}
        /\ procs' = procs \ target
        /\ inv' = [inv EXCEPT ![i] =
                     KillLoop([s EXCEPT !.signalled = @ \cup target])]
     \/ /\ target # {}
        /\ procs' = procs
        /\ inv' = [inv EXCEPT ![i] = Traceback(s)]
  /\ UNCHANGED <<file, nextPid, authorized>>

\* Faulty variant of RegisterTunnel: an entry the registry already holds for
\* the bind port is kept (setdefault in place of the assignment).
RegisterTunnelKeepsExisting(i) ==
  LET s == inv[i]
      data_dict == ReadRegistry(file)
  IN
  /\ s.pc = "r_read"
  /\ inv' = [inv EXCEPT ![i] =
               CallWrite([s EXCEPT !.data = data_dict],
                         IF Str(s.bind) \in DOMAIN data_dict THEN data_dict
                         ELSE Put(data_dict, Str(s.bind),
                                  Metadata(s.host, s.user)),
                         "s_end")]
  /\ UNCHANGED <<file, procs, nextPid, authorized>>

\* Faulty variant of RegisterTunnel: the entry is set in data_dict and the
\* registry is not written back.
RegisterTunnelNoWrite(i) ==
  LET s == inv[i] IN
  /\ s.pc = "r_read"
  /\ inv' = [inv EXCEPT ![i] =
               Return([s EXCEPT !.data = ReadRegistry(file)], "s_end")]
  /\ UNCHANGED <<file, procs, nextPid, authorized>>

\* register_tunnel: read, set the entry of str(bind_port), write.
RegisterTunnel(i) ==
  LET s == inv[i]
      data_dict == ReadRegistry(file)
  IN
  /\ s.pc = "r_read"
  /\ inv' = [inv EXCEPT ![i] =
               CallWrite([s EXCEPT !.data = data_dict],
                         Put(data_dict, Str(s.bind),
                             Metadata(s.host, s.user)),
                         "s_end")]
  /\ UNCHANGED <<file, procs, nextPid, authorized>>

\* ------------------------------------------------------------ ReverseSSH

\* main: has_internet_connection(), exit 1 without a connection.
HasInternetConnection(i) ==
  LET s == inv[i] IN
  /\ s.pc = "s_net"
  /\ \E connected \in BOOLEAN :
       inv' = [inv EXCEPT ![i] =
                 IF connected
                 THEN [Log(s, "Connectivity", TRUE) EXCEPT !.pc = "s_server"]
                 ELSE Exit(Log(s, "Connectivity", FALSE), 1)]
  /\ UNCHANGED <<file, procs, nextPid, authorized>>

\* Faulty variant of EnsureSshServer: a failed install or start is printed
\* and the set-up goes on.
EnsureSshServerWarnsOnly(i) ==
  LET s == inv[i] IN
  /\ s.pc = "s_server"
  /\ \E outcome \in {"ready", "failed"} :
       inv' = [inv EXCEPT ![i] =
                 [Log(s, "ServerReady", outcome = "ready")
                    EXCEPT !.pc = "s_key"]]
  /\ UNCHANGED <<file, procs, nextPid, authorized>>

\* ensure_ssh_server: sshd installed (or installed now) and the ssh service
\* active (or started now); a failed install or start exits 1.  A command
\* that cannot be run at all (no systemctl) raises inside main's try block.
EnsureSshServer(i) ==
  LET s == inv[i] IN
  /\ s.pc = "s_server"
  /\ \E outcome \in {"ready", "failed", "raised"} :
       inv' = [inv EXCEPT ![i] =
                 CASE outcome = "ready" ->
                        [Log(s, "ServerReady", TRUE) EXCEPT !.pc = "s_key"]
                   [] outcome = "failed" ->
                        Exit(Log(s, "ServerReady", FALSE), 1)
                   [] outcome = "raised" -> Caught(s, "ServerReady")]
  /\ UNCHANGED <<file, procs, nextPid, authorized>>

\* The states validate_ssh_key_pair can find ~/.ssh/id_rsa and id_rsa.pub in:
\* a file missing, fingerprints that differ, fingerprints ssh-keygen cannot
\* read, or a matching pair.
KeyPairStates == {"missing", "mismatch", "unreadable", "valid"}

\* generate_ssh_key: a valid pair is kept; a missing or mismatched pair is
\* replaced by ssh-keygen (exit 1 when that fails); fingerprints that cannot
\* be read exit 1.  A new public key is on no line of authorized_keys.
GenerateSshKey(i) ==
  LET s == inv[i] IN
  /\ s.pc = "s_key"
  /\ \E keypair \in KeyPairStates, generated \in BOOLEAN :
       IF keypair = "valid"
       THEN /\ inv' = [inv EXCEPT ![i] =
                         [Log(s, "KeyMaterialReady", TRUE)
                            EXCEPT !.pc = "s_push"]]
            /\ authorized' = authorized
       ELSE IF keypair \in {"missing", "mismatch"} /\ generated
       THEN /\ inv' = [inv EXCEPT ![i] =
                         [Log(s, "KeyMaterialReady", TRUE)
                            EXCEPT !.pc = "s_push"]]
            /\ authorized' = 0
       ELSE /\ inv' = [inv EXCEPT ![i] =
                         Exit(Log(s, "KeyMaterialReady", FALSE), 1)]
            /\ authorized' = authorized
  /\ UNCHANGED <<file, procs, nextPid>>

\* push_key, first half: grep -Fxq over ssh returns 0 when the remote host
\* answers and holds the key.  (The public key exists here: generate_ssh_key
\* returned.)
PushKeyCheck(i) ==
  LET s == inv[i] IN
  /\ s.pc = "s_push"
  /\ \E reachable \in BOOLEAN :
       inv' = [inv EXCEPT ![i] =
                 IF reachable /\ authorized > 0
                 THEN [Log(s, "KeyAuthorizedRemotely", TRUE)
                         EXCEPT !.pc = "s_launch"]
                 ELSE [s EXCEPT !.pc = "s_copy"]]
  /\ UNCHANGED <<file, procs, nextPid, authorized>>

\* push_key, second half: echo key >> authorized_keys over ssh (run_cmd with
\* check=True raises when ssh fails).
PushKeyCopy(i) ==
  LET s == inv[i] IN
  /\ s.pc = "s_copy"
  /\ \/ /\ authorized < MaxAuthorized
        /\ authorized' = authorized + 1
        /\ inv' = [inv EXCEPT ![i] =
                     [Log(s, "KeyAuthorizedRemotely", TRUE)
                        EXCEPT !.pc = "s_launch"]]
     \/ /\ authorized' = authorized
        /\ inv' = [inv EXCEPT ![i] = Caught(s, "KeyAuthorizedRemotely")]
  /\ UNCHANGED <<file, procs, nextPid>>

\* Faulty variant of StartReverseTunnel: the exit status of ssh is not
\* checked, so the registration follows a failed launch too.
StartReverseTunnelUnchecked(i) ==
  LET s == inv[i] IN
  /\ s.pc = "s_launch"
  /\ \/ /\ nextPid <= MaxPid
        /\ procs' = procs \cup {[pid |-> nextPid, bind |-> s.bind]}
        /\ nextPid' = nextPid + 1
        /\ inv' = [inv EXCEPT ![i] =
                     [Log(s, "TunnelLaunch", TRUE)
                        EXCEPT !.pc = "r_ctor", !.atLaunch = file]]
     \/ /\ UNCHANGED <<procs, nextPid>>
        /\ inv' = [inv EXCEPT ![i] =
                     [Log(s, "TunnelLaunch", FALSE)
                        EXCEPT !.pc = "r_ctor", !.atLaunch = file]]
  /\ UNCHANGED <<file, authorized>>

\* start_reverse_tunnel: ssh -fNR with check=True.  Exit status 0 leaves the
\* tunnel process running and goes on to the registration; any other status
\* raises RuntimeError, caught by main.
StartReverseTunnel(i) ==
  LET s == inv[i] IN
  /\ s.pc = "s_launch"
  /\ \/ /\ nextPid <= MaxPid
        /\ procs' = procs \cup {[pid |-> nextPid, bind |-> s.bind]}
        /\ nextPid' = nextPid + 1
        /\ inv' = [inv EXCEPT ![i] =
                     [Log(s, "TunnelLaunch", TRUE)
                        EXCEPT !.pc = "r_ctor", !.atLaunch = file]]
     \/ /\ UNCHANGED <<procs, nextPid>>
        /\ inv' = [inv EXCEPT ![i] =
                     Caught([s EXCEPT !.atLaunch = file], "TunnelLaunch")]
  /\ UNCHANGED <<file, authorized>>

\* The invocation has ended; the slot is free for the next one.
Finish(i) ==
  LET s == inv[i] IN
  /\ s.pc = "done"
  /\ inv' = [inv EXCEPT ![i] =
               [IdleInv EXCEPT !.prev =
                  IF s.op = "list"
                  THEN [op |-> "list", tunnel_dict |-> s.tunnel_dict,
                        nwrites |-> s.nwrites]
                  ELSE NoPrev]]
  /\ UNCHANGED <<file, procs, nextPid, authorized>>

\* ---------------------------------------------------------- environment

Idle(S) == \A i \in S : inv[i].pc = "idle"

\* A tunnel process ends on its own (connection lost, killed by hand), while
\* the slots of S run no invocation.
ProcessExit(S) ==
  /\ Idle(S)
  /\ \E p \in procs : procs' = procs \ {p}
  /\ inv' = [i \in Slots |-> [inv[i] EXCEPT !.prev = NoPrev]]
  /\ UNCHANGED <<file, nextPid, authorized>>

\* A tunnel is started outside the tool, with the same ssh command line,
\* while the slots of S run no invocation.
ProcessStart(S) ==
  /\ Idle(S)
  /\ nextPid <= MaxPid
  /\ \E bp \in BindPorts :
       procs' = procs \cup {[pid |-> nextPid, bind |-> bp]}
  /\ nextPid' = nextPid + 1
  /\ inv' = [i \in Slots |-> [inv[i] EXCEPT !.prev = NoPrev]]
  /\ UNCHANGED <<file, authorized>>

\* ------------------------------------------------------- specifications

Step(i) ==
  \/ Ctor(i)
  \/ WriteOpen(i)
  \/ WriteFlush(i)
  \/ ListRead(i)
  \/ ListProbe(i)
  \/ KillRead(i)
  \/ KillPgrep(i)
  \/ KillSignal(i)
  \/ HasInternetConnection(i)
  \/ EnsureSshServer(i)
  \/ GenerateSshKey(i)
  \/ PushKeyCheck(i)
  \/ PushKeyCopy(i)
  \/ StartReverseTunnel(i)
  \/ RegisterTunnel(i)

\* One invocation after the other; the processes change between invocations.
Next ==
  \/ Start(1)
  \/ Step(1)
  \/ Finish(1)
  \/ ProcessExit({1})
  \/ ProcessStart({1})

Spec == Init /\ [][Next]_vars

\* Two invocations side by side, one per slot, their steps interleaved; the
\* invocation of slot 1 is the one that starts first.
NextConc ==
  \/ Start(1)
  \/ inv[1].pc # "idle" /\ Start(2)
  \/ \E i \in Slots : Step(i)

SpecConc == Init /\ [][NextConc]_vars

\* --------------------------------------------------------------- claims

\* The decimal string a ends with the decimal string b.
EndsWith(a, b) ==
  Len(b) <= Len(a) /\ SubSeq(a, Len(a) - Len(b) + 1, Len(a)) = b

\* The tunnel process of the record key (the one whose bind port it is) runs.
OwnAlive(ps, key) == \E p \in ps : Str(p.bind) = key

\* Some running tunnel has a bind port whose decimal form ends with key.
SuffixAlive(ps, key) == \E p \in ps : EndsWith(Str(p.bind), key)

\* kill_tunnel(bind) has returned to main in slot i.
KillReturned(i) ==
  /\ inv[i].op = "kill"
  /\ inv[i].bind # 0
  /\ ~inv[i].uncaught
  /\ inv[i].pc \in {"k_read", "done"}

\* C1: when kill_tunnel(p) has returned, the registry file is a complete
\* document with no entry for p, whatever it held before and whether or not
\* a process matched.
KillIsTerminal ==
  \A i \in Slots :
    KillReturned(i) =>
      file.kind = "json" /\ Str(inv[i].bind) \notin DOMAIN file.data

\* C1, the case: the record was there, no process matched, and it is gone.
KillIsTerminalWitness ==
  /\ KillReturned(1)
  /\ Str(inv[1].bind) \in DOMAIN inv[1].data
  /\ inv[1].signalled = {}
  /\ inv[1].errors = 0

\* A set-up in slot i ended on the step named, which failed.
FailedAt(i, step) ==
  /\ inv[i].op = "setup"
  /\ inv[i].pc = "done"
  /\ inv[i].trace # <<>>
  /\ inv[i].trace[Len(inv[i].trace)] = [step |-> step, ok |-> FALSE]

\* The tunnel launch of the set-up in slot i failed.
LaunchFailed(i) ==
  /\ inv[i].op = "setup"
  /\ \E k \in 1..Len(inv[i].trace) :
        inv[i].trace[k] = [step |-> "TunnelLaunch", ok |-> FALSE]

\* C2: from the failure of its tunnel launch on, a set-up leaves the registry
\* file as it was when the launch began, with no entry for its bind port.
NoOrphanOnLaunchFailure ==
  \A i \in Slots :
    LaunchFailed(i) =>
      /\ file = inv[i].atLaunch
      /\ Str(inv[i].bind) \notin DOMAIN ReadRegistry(file)

\* C2, the case: the launch failed while the registry held another record,
\* and the set-up has ended.
NoOrphanWitness ==
  /\ LaunchFailed(1)
  /\ inv[1].pc = "done"
  /\ ReadRegistry(file) # EmptyMap

\* A --list-tunnel invocation in slot i has ended.
ListDone(i) == inv[i].op = "list" /\ inv[i].pc = "done"

Reads(i) ==
  /\ inv[i].pc \in {"l_read", "k_read", "r_read"}
  /\ inv'[i].pc # inv[i].pc

\* C4 as stated, for a reader: an invocation that started when the registry
\* file held a complete document finds a complete document (the old or the
\* new mapping of a concurrent writer) at every one of its reads, never an
\* absent, empty or partly written file.
ReadsSeeCompleteDocuments ==
  [][\A i \in Slots :
       Reads(i) /\ inv[i].before.kind = "json" => file.kind = "json"]_vars

\* C5 as stated: list_tunnel returns, and leaves on disk, the loaded registry
\* restricted to the records whose own tunnel process runs.
ListKeepsExactlyLive ==
  \A i \in Slots :
    ListDone(i) =>
      LET live == {k \in DOMAIN inv[i].data : OwnAlive(procs, k)}
      IN  /\ inv[i].tunnel_dict = Restrict(inv[i].data, live)
          /\ ReadRegistry(file) = Restrict(inv[i].data, live)

\* C6: a listing that follows a listing, with no change of the processes in
\* between, returns the same mapping and writes nothing; the two together
\* write the registry at most once.
ReconcileIdempotent ==
  \A i \in Slots :
    ListDone(i) /\ inv[i].prev.op = "list" =>
      /\ inv[i].tunnel_dict = inv[i].prev.tunnel_dict
      /\ inv[i].nwrites = 0
      /\ inv[i].prev.nwrites + inv[i].nwrites <= 1

\* C6, the case: the first listing dropped a record and kept another.
ReconcileIdempotentWitness ==
  /\ ListDone(1)
  /\ inv[1].prev.op = "list"
  /\ inv[1].prev.nwrites = 1
  /\ inv[1].tunnel_dict # EmptyMap

\* The set-up of slot i began with a record for its bind port in the registry
\* and the tunnel process of that bind port running.
LiveConflict(i) ==
  /\ inv[i].op = "setup"
  /\ Str(inv[i].bind) \in DOMAIN ReadRegistry(inv[i].before)
  /\ OwnAlive(inv[i].procs0, Str(inv[i].bind))

\* C7: a set-up for a registered, live bind port never gets past the bind
\* port check: it is constructing or listing the registry, or it has exited
\* with status 1, and no later step ran.
ConflictRejectedAtPortFree ==
  \A i \in Slots :
    LiveConflict(i) =>
      /\ inv[i].pc \in {"ctor", "l_read", "l_probe", "w_open", "w_flush",
                        "done"}
      /\ inv[i].pc \in {"w_open", "w_flush"} => inv[i].wret = "l_ret"
      /\ inv[i].trace \in {<<>>, <<[step |-> "PortFree", ok |-> FALSE]>>}
      /\ inv[i].pc = "done" =>
           inv[i].status = 1 /\ inv[i].trace # <<>> /\ procs = inv[i].procs0

\* C7, the case: such a set-up has been rejected.
ConflictRejectedWitness ==
  /\ LiveConflict(1)
  /\ FailedAt(1, "PortFree")

\* C8 as stated: a set-up rejected for a conflict leaves the registry file
\* as it was before the call.
ConflictNoSideEffects ==
  \A i \in Slots :
    FailedAt(i, "PortFree") => file = inv[i].before

\* C8 amended: a set-up rejected for a conflict leaves the registry file
\* holding the records of before whose probe finds a process (the record of
\* the bind port among them), unchanged; the records whose probe finds no
\* process are gone.
ConflictOnlyPrunes ==
  \A i \in Slots :
    FailedAt(i, "PortFree") =>
      LET kept == {k \in DOMAIN inv[i].before.data :
                     SuffixAlive(inv[i].procs0, k)}
      IN  /\ inv[i].before.kind = "json"
          /\ Str(inv[i].bind) \in kept
          /\ file = JsonFile(Restrict(inv[i].before.data, kept))

\* C8, the case: the rejected set-up pruned a stale record of another port.
ConflictOnlyPrunesWitness ==
  /\ FailedAt(1, "PortFree")
  /\ file # inv[1].before

\* C9 as stated: a set-up for a bind port whose record is stale (registered,
\* its tunnel process not running) is not rejected as a conflict.
StaleNeverBlocks ==
  \A i \in Slots :
    /\ inv[i].op = "setup"
    /\ Str(inv[i].bind) \in DOMAIN ReadRegistry(inv[i].before)
    /\ ~OwnAlive(inv[i].procs0, Str(inv[i].bind))
    => ~FailedAt(i, "PortFree")

\* The set-up steps in the order main runs them.
SetupOrder ==
  <<"PortFree", "Connectivity", "ServerReady", "KeyMaterialReady",
    "KeyAuthorizedRemotely", "TunnelLaunch", "RegisterRecord">>

\* Steps a set-up has behind it when it stands at pc (0: not known from pc).
StepsBehind(s) ==
  CASE s.pc = "s_net" -> 1
    [] s.pc = "s_server" -> 2
    [] s.pc = "s_key" -> 3
    [] s.pc \in {"s_push", "s_copy"} -> 4
    [] s.pc = "s_launch" -> 5
    [] s.pc \in {"r_ctor", "r_read"} -> 6
    [] s.pc \in {"w_open", "w_flush"} /\ s.wret \in {"r_read", "s_end"} -> 6
    [] OTHER -> 0

\* C10: the steps of a set-up run in the order of SetupOrder, each only
\* after every earlier one succeeded; a failed step is the last one, and the
\* launch and the registration are reached with every earlier step passed.
HardGates ==
  \A i \in Slots :
    inv[i].op = "setup" =>
      LET t == inv[i].trace IN
      /\ Len(t) <= Len(SetupOrder)
      /\ \A k \in 1..Len(t) :
            t[k].step = SetupOrder[k] /\ (k < Len(t) => t[k].ok)
      /\ t # <<>> /\ ~t[Len(t)].ok => inv[i].pc = "done"
      /\ StepsBehind(inv[i]) > 0 =>
            Len(t) = StepsBehind(inv[i]) /\ t[Len(t)].ok
      /\ procs # inv[i].procs0 => Len(t) >= 6 /\ t[6].ok

\* C10, the case: the remote authorization failed and the set-up ended there,
\* with no tunnel started.
HardGatesWitness ==
  /\ FailedAt(1, "KeyAuthorizedRemotely")
  /\ procs = inv[1].procs0

\* The set-up of slot i has ended and its tunnel launch had succeeded.
SetupSucceeded(i) ==
  /\ inv[i].op = "setup"
  /\ inv[i].pc = "done"
  /\ \E k \in 1..Len(inv[i].trace) :
        inv[i].trace[k] = [step |-> "TunnelLaunch", ok |-> TRUE]

\* C11: after a set-up whose launch succeeded, the registry file is a
\* complete document with exactly one key that denotes the bind port, the
\* decimal form of the port, mapped to the given host and user; from a
\* registry that read as empty it holds that entry and no other.
SetupRegistersRecord ==
  \A i \in Slots :
    SetupSucceeded(i) =>
      /\ file.kind = "json"
      /\ {k \in DOMAIN file.data : ParseInt(k) = inv[i].bind}
            = {Str(inv[i].bind)}
      /\ file.data[Str(inv[i].bind)] = Metadata(inv[i].host, inv[i].user)
      /\ ReadRegistry(inv[i].before) = EmptyMap =>
            DOMAIN file.data = {Str(inv[i].bind)}

\* C11, the case: the registry held a stale record of the bind port for
\* another host, and the set-up replaced it.
SetupRegistersRecordWitness ==
  /\ SetupSucceeded(1)
  /\ Str(inv[1].bind) \in DOMAIN ReadRegistry(inv[1].before)
  /\ inv[1].before.data[Str(inv[1].bind)].remote_host # inv[1].host

\* kill_tunnel(bind) was called in slot i when the registry had no entry for
\* bind and no process matched its pattern.
KillOfUnknown(i) ==
  /\ inv[i].op = "kill"
  /\ inv[i].bind # 0
  /\ Str(inv[i].bind) \notin DOMAIN inv[i].data
  /\ PgrepSet(inv[i].atCall, Str(inv[i].bind)) = {}

\* C12: a kill_tunnel for a bind port with no entry and no matching process
\* signals nothing, raises nothing, writes back the mapping it read, and the
\* invocation it ends exits with status 0.
KillOfUnknownIsNoOp ==
  \A i \in Slots :
    KillOfUnknown(i) =>
      /\ inv[i].signalled = {} /\ inv[i].errors = 0
      /\ procs = inv[i].atCall
      /\ ~inv[i].uncaught
      /\ inv[i].pc \in {"w_open", "w_flush"} => inv[i].wbuf = inv[i].data
      /\ inv[i].pc \in {"k_read", "done"} => file = JsonFile(inv[i].data)
      /\ inv[i].pc = "done" => inv[i].status = 0

\* C12, the case: such a kill ended the invocation while the registry held a
\* record of another port and its tunnel ran.
KillOfUnknownWitness ==
  /\ KillOfUnknown(1)
  /\ inv[1].pc = "done"
  /\ inv[1].data # EmptyMap
  /\ procs # {}

\* C13 as stated: a kill_tunnel call that found several matching processes
\* ends with every one of them gone through (signalled, or its failure
\* printed) and with the registry entry removed, whatever signal failed.
SignalFailureDoesNotAbort ==
  \A i \in Slots :
    /\ inv[i].op = "kill"
    /\ inv[i].bind # 0
    /\ inv[i].pc = "done"
    /\ Cardinality(PgrepSet(inv[i].atCall, Str(inv[i].bind))) >= 2
    => /\ ~inv[i].uncaught
       /\ inv[i].the_pid = <<>>
       /\ Str(inv[i].bind) \notin DOMAIN ReadRegistry(file)

PushDone(i) ==
  /\ inv[i].op = "setup"
  /\ \E k \in 1..Len(inv[i].trace) :
        inv[i].trace[k] = [step |-> "KeyAuthorizedRemotely", ok |-> TRUE]

\* C15 as stated: whenever push_key has returned, the first time or again,
\* the public key is on exactly one line of the remote authorized_keys.
KeyPushIdempotent ==
  \A i \in Slots : PushDone(i) => authorized = 1

\* No two keys of the mapping denote the same bind port.
UniquePorts(m) ==
  \A k1, k2 \in DOMAIN m : ParseInt(k1) = ParseInt(k2) => k1 = k2

\* Slot i is inside the write of register_tunnel.
Registering(i) ==
  /\ inv[i].pc \in {"w_open", "w_flush"}
  /\ inv[i].wret = "s_end"

\* C16: no registry document, on disk or about to be written, has two keys
\* for one bind port; register_tunnel writes the mapping it read with the
\* entry of the bind port set to the new metadata, every other entry as it
\* was, and kill_tunnel writes the mapping it read without the entry.
Uniqueness ==
  /\ UniquePorts(ReadRegistry(file))
  /\ \A i \in Slots :
       /\ UniquePorts(inv[i].wbuf)
       /\ Registering(i) =>
            /\ DOMAIN inv[i].wbuf = DOMAIN inv[i].data \cup {Str(inv[i].bind)}
            /\ inv[i].wbuf[Str(inv[i].bind)]
                  = Metadata(inv[i].host, inv[i].user)
            /\ \A k \in DOMAIN inv[i].data \ {Str(inv[i].bind)} :
                  inv[i].wbuf[k] = inv[i].data[k]
       /\ inv[i].pc \in {"w_open", "w_flush"} /\ inv[i].wret = "k_next" =>
            /\ DOMAIN inv[i].wbuf = DOMAIN inv[i].data \ {Str(inv[i].bind)}
            /\ \A k \in DOMAIN inv[i].wbuf : inv[i].wbuf[k] = inv[i].data[k]

\* C16, the case: register_tunnel found an entry of its bind port for
\* another host and is writing its own in its place.
UniquenessWitness ==
  \E i \in Slots :
    /\ Registering(i)
    /\ Str(inv[i].bind) \in DOMAIN inv[i].data
    /\ inv[i].data[Str(inv[i].bind)].remote_host # inv[i].host

\* The set-up of slot i has passed the bind port check and has not yet
\* executed register_tunnel.
PassedNotRegistered(i) ==
  /\ inv[i].op = "setup"
  /\ inv[i].trace # <<>>
  /\ inv[i].trace[1] = [step |-> "PortFree", ok |-> TRUE]
  /\ inv[i].pc \in {"s_net", "s_server", "s_key", "s_push", "s_copy",
                    "s_launch", "r_ctor", "r_read"}

\* C17: no invocation ever waits for another: in every reachable state each
\* running invocation can take its next step, whatever step the other one
\* stands at.
NoMutualExclusion ==
  \A i \in Slots :
    inv[i].pc \notin {"idle", "done"} => ENABLED Step(i)

\* C17, the case: two set-ups for the same bind port have both passed the
\* bind port check and launched their tunnel, and both are about to
\* register.
NoMutualExclusionWitness ==
  /\ PassedNotRegistered(1) /\ PassedNotRegistered(2)
  /\ inv[1].bind = inv[2].bind
  /\ inv[1].pc = "r_read" /\ inv[2].pc = "r_read"

\* C18: when kill_tunnel(p) has returned, every key other than p has in the
\* registry file the entry it had in the mapping kill_tunnel read, or is
\* absent as it was there.
KillChangesOnlyItsEntry ==
  \A i \in Slots :
    KillReturned(i) =>
      LET p == Str(inv[i].bind)
          after == ReadRegistry(file)
      IN  /\ DOMAIN after \ {p} = DOMAIN inv[i].data \ {p}
          /\ \A q \in DOMAIN after \ {p} : after[q] = inv[i].data[q]

\* C18, the case: the registry held the entry of p and one of another port;
\* the first is gone, the second is there.
KillChangesOnlyItsEntryWitness ==
  /\ KillReturned(1)
  /\ Str(inv[1].bind) \in DOMAIN inv[1].data
  /\ DOMAIN ReadRegistry(file) # {}

\* C20 as stated: every process a kill_tunnel(p) call signalled is the
\* tunnel of bind port p.
KillSignalsOnlyOwn ==
  \A i \in Slots :
    inv[i].op = "kill" =>
      \A q \in inv[i].signalled : q.bind = inv[i].bind

\* The registry mapping m holds the record the set-up of slot i registers.
HoldsRecordOf(m, i) ==
  /\ Str(inv[i].bind) \in DOMAIN m
  /\ m[Str(inv[i].bind)] = Metadata(inv[i].host, inv[i].user)

\* Slot i registered its bind port, slot j ran an invocation that lists, or
\* kills or registers other bind ports only; both have ended and the tunnel
\* of slot i runs.
BothDoneDistinctPorts(i, j) ==
  /\ i # j
  /\ SetupSucceeded(i)
  /\ inv[j].pc = "done"
  /\ \/ inv[j].op = "list"
     \/ inv[j].op = "setup" /\ inv[j].bind # inv[i].bind
     \/ inv[j].op = "kill" /\ inv[i].bind \notin inv[j].killed
  /\ \E q \in procs : q.bind = inv[i].bind

====
